---- MODULE Spec2Model ----
(***************************************************************************)
(* Model of the AI-reply pipeline of gnosis-influencer (src/app.py):       *)
(* the handler post_message_ai, the message table it reads and appends to, *)
(* and the collaborators it calls (profiles API, chunk API, GraphQL        *)
(* search, the chat-completion model).                                     *)
(*                                                                         *)
(* Texts are sequences of tokens; a string literal of the source is one    *)
(* token, so that concatenation, joining and containment are computed.     *)
(* The text of a completion is a sequence of characters, so that the       *)
(* replacement of its fence marks is computed character by character.      *)
(***************************************************************************)
EXTENDS Integers, Sequences, FiniteSets, TLC

\* ------------------------------------------------------------------ bounds
\* messages a conversation holds before the first request
MaxHist == 3
\* elements of the array the model answers with
MaxTweets == 2
\* seconds the database clock may advance
MaxClock == 1

\* Python's None for identifiers
None == -1

\* the request workers of the hosting layer
Runs == {"r1", "r2"}

\* ------------------------------------------------------------- text helpers
RECURSIVE Join(_, _)
\* sep.join(parts) of Python, on token sequences
Join(sep, parts) ==
    IF parts = <<>> THEN <<>>
    ELSE IF Len(parts) = 1 THEN Head(parts)
    ELSE Head(parts) \o sep \o Join(sep, Tail(parts))

\* t occurs in s as a contiguous run of tokens
Contains(s, t) ==
    \E i \in 0..(Len(s) - Len(t)) : SubSeq(s, i + 1, i + Len(t)) = t

\* reversed(seq)
Reversed(s) == [i \in 1..Len(s) |-> s[Len(s) + 1 - i]]

\* seq[:n]
Take(s, n) == SubSeq(s, 1, IF Len(s) < n THEN Len(s) ELSE n)

\* ------------------------------------------------------------------ schema
\* class SenderType(Enum)
SenderType == {"user", "ai"}

\* the conversation table: created by another service, only read here
ConversationRows ==
    { [id |-> 1, user_id |-> 7, content_id |-> 3],
      [id |-> 2, user_id |-> 8, content_id |-> 4] }

NoConversation == [id |-> None, user_id |-> None, content_id |-> None]

\* faulty variant: an unknown id falls back to some conversation
ConversationGetOrAny(id) ==
    IF \E c \in ConversationRows : c.id = id
    THEN CHOOSE c \in ConversationRows : c.id = id
    ELSE CHOOSE c \in ConversationRows : TRUE

\* Conversation.query.get(id): the row or None
ConversationGet(id) ==
    IF \E c \in ConversationRows : c.id = id
    THEN CHOOSE c \in ConversationRows : c.id = id
    ELSE NoConversation

\* the message kinds a conversation holds before the first request: what the
\* user wrote and what an earlier reply said
HistoryKinds ==
    { [sender |-> "user", message_text |-> <<"hi", "?">>, content_chunk_id |-> None],
      [sender |-> "ai", message_text |-> <<"yo">>, content_chunk_id |-> 5] }

\* a row of the message table. tx is "committed" or "open" (inserted by a
\* transaction not yet committed); by is the worker whose session inserted
\* it, "other" for the rows the conversation service wrote
MessageRow(id, cid, sender, chunk, text, ts, tx, by) ==
    [id |-> id, conversation_id |-> cid, sender |-> sender,
     content_chunk_id |-> chunk, message_text |-> text, timestamp |-> ts,
     tx |-> tx, by |-> by]


\* ---------------------------------------------------------- request bodies
\* request.get_json(): None, a dict (with or without each of the two keys),
\* or another JSON value
Body(kind, has, cid, chunk) ==
    [kind |-> kind,
     empty |-> (kind = "none" \/ (kind = "dict" /\ ~has /\ chunk = None)),
     has_conversation_id |-> has, conversation_id |-> cid,
     content_chunk_id |-> chunk]

\* a JSON value that is no object: a string or a list (empty or not, holding
\* 'conversation_id' or not), a number (zero or not), true or false
JsonValue(kind, empty, has) ==
    [kind |-> kind, empty |-> empty, has_conversation_id |-> has,
     conversation_id |-> None, content_chunk_id |-> None]

\* not data: None, {}, "", [], 0 and false are falsy
Falsy(d) == d.empty

\* 'conversation_id' not in data raises TypeError on a number and on a
\* boolean
InRaises(d) == d.kind \in {"number", "bool"}

\* 'conversation_id' in data: a key of the dict, a substring of the string,
\* an element of the list
HasKey(d) == d.kind \in {"dict", "str", "list"} /\ d.has_conversation_id

\* if content_chunk_id: None and 0 are falsy
Truthy(chunk) == chunk # None /\ chunk # 0

\* ------------------------------------------------------ grounding by search
\* faulty variant: the two latest messages, oldest first
LastMessagesChronological(msgs) ==
    SubSeq(msgs, IF Len(msgs) < 2 THEN 1 ELSE Len(msgs) - 1, Len(msgs))

\* last_messages = [msg for msg in reversed(messages)][:2]
LastMessages(msgs) == Take(Reversed(msgs), 2)

\* ' '.join([msg.message_text for msg in last_messages])
QueryText(last) ==
    Join(<<" ">>, [i \in 1..Len(last) |-> last[i].message_text])

\* the variables of the GraphQL search
SearchVariables(conv, msgs) ==
    [userId |-> ToString(conv.user_id),
     queryText |-> QueryText(LastMessages(msgs)),
     limit |-> 1]

NoVariables == [userId |-> "", queryText |-> <<>>, limit |-> 0]

\* ------------------------------------------------------------------ prompt
\* faulty variant: every history entry is given the role 'user'
RoleAlwaysUser(sender) == "user"

\* role = 'user' if msg.sender == SenderType.user else 'assistant'
Role(sender) == IF sender = "user" THEN "user" ELSE "assistant"

ConversationContext(msgs) ==
    [i \in 1..Len(msgs) |->
        [role |-> Role(msgs[i].sender), content |-> msgs[i].message_text]]

RECURSIVE UserQuery(_)
\* the text of the last message whose sender is user, '' when there is none
UserQuery(msgs) ==
    IF msgs = <<>> THEN <<>>
    ELSE IF msgs[Len(msgs)].sender = "user" THEN msgs[Len(msgs)].message_text
    ELSE UserQuery(SubSeq(msgs, 1, Len(msgs) - 1))

FirstPrompt ==
    <<"Write an informative twitter thread that explains the point you're making below.">>
ReplyPrompt ==
    <<"Reply to the user's query based on the following content. \nUser query: ">>
FormatInstruction ==
    <<"\nReply in json format as a list of tweets, in the form [{'tweet': 'tweet text'}, {'tweet': 'tweet text'}, ...]">>
ContentLabel == <<"\n\nContent: ">>

Prompt(msgs, chunk_text) ==
    (IF Len(msgs) = 0 THEN FirstPrompt ELSE ReplyPrompt \o UserQuery(msgs))
        \o FormatInstruction \o ContentLabel \o chunk_text

PromptMessages(si, msgs, chunk_text) ==
    <<[role |-> "system", content |-> si]>>
        \o ConversationContext(msgs)
        \o <<[role |-> "user", content |-> Prompt(msgs, chunk_text)]>>

\* ------------------------------------------------------------ model output
\* the value of a 'tweet' key: a string or null
TweetValue(null, text) == [null |-> null, text |-> text]

\* an element met while iterating the parsed value: a dict (with or without
\* the key 'tweet') or another value (a key of a top-level dict, a character
\* of a top-level string, a string or number of a list)
Element(type, has, value) == [type |-> type, has_tweet |-> has, tweet |-> value]

NoTweet == TweetValue(TRUE, <<>>)
StringElement == Element("str", FALSE, NoTweet)

\* the parsed value: its type and what iterating it yields
Document(type, items) == [type |-> type, items |-> items]

\* The text of the completion is a sequence of characters, each a string of
\* length one; only the backtick is written "BT". Two texts are the same
\* string when they are the same sequence. Strings are written without
\* escape sequences, so the characters between the quotes are the
\* characters of the parsed string.
Fence == <<"BT", "BT", "BT">>
FenceJson == Fence \o <<"j", "s", "o", "n">>

\* str.replace(old, ""): the occurrences of old are taken out from left to
\* right, without overlap
RECURSIVE Replace(_, _)
Replace(text, old) ==
    IF Len(text) < Len(old) THEN text
    ELSE IF SubSeq(text, 1, Len(old)) = old
    THEN Replace(SubSeq(text, Len(old) + 1, Len(text)), old)
    ELSE <<Head(text)>> \o Replace(Tail(text), old)

\* text.replace("```json", "").replace("```", ""): one pass after the other,
\* so the second pass also takes a mark that the first pass brought together
Unmarked(text) == Replace(Replace(text, FenceJson), Fence)

\* the completion as the model wrote it. A JSON object is the sequence of
\* its key/value pairs, a JSON string is its text; a list holds objects and
\* other values
Pair(key, value) == [key |-> key, value |-> value]
Object(pairs) == [type |-> "dict", pairs |-> pairs]
Json(type, items, text) == [type |-> type, items |-> items, text |-> text]

TweetKey == <<"t", "w", "e", "e", "t">>
\* keys that are 'tweet' once the fence mark in them is taken out
MarkedKey == Fence \o TweetKey
SplitKey == <<"t", "w">> \o Fence \o <<"e", "e", "t">>
OtherKey == <<"t", "e", "x", "t">>

T1 == <<"t", "1">>
T2 == <<"t", "2">>
\* the texts a tweet may have: a plain one, and a`````json`b, which holds
\* the mark ```json and, once that is taken out, the mark ```
TweetTexts ==
    { T1, <<"a", "BT", "BT", "BT", "BT", "BT", "j", "s", "o", "n", "BT", "b">> }
GoodObjects ==
    { Object(<<Pair(TweetKey, TweetValue(FALSE, t))>>) : t \in TweetTexts }
NullObject == Object(<<Pair(TweetKey, NoTweet)>>)
KeylessObject == Object(<<Pair(OtherKey, TweetValue(FALSE, T1))>>)
MarkedObject == Object(<<Pair(MarkedKey, TweetValue(FALSE, T1))>>)
SplitObject == Object(<<Pair(SplitKey, TweetValue(FALSE, T1))>>)
\* two keys that are both 'tweet' once the mark is taken out
TwoKeyObject ==
    Object(<<Pair(TweetKey, TweetValue(FALSE, T1)),
             Pair(MarkedKey, TweetValue(FALSE, T2))>>)
ListElements == GoodObjects \cup {NullObject, KeylessObject, MarkedObject}

SeqsUpTo(S, n) == UNION { [1..k -> S] : k \in 0..n }

Documents ==
    { Json("list", items, <<>>) : items \in SeqsUpTo(ListElements, MaxTweets) }
        \cup { Json("list", <<o>>, <<>>) :
                   o \in { TwoKeyObject, SplitObject, Json("str", <<>>, <<"x">>),
                           Json("number", <<>>, <<>>) } }
        \cup { Json("dict", <<>>, <<>>),
               Json("dict", <<Pair(OtherKey, TweetValue(FALSE, T1))>>, <<>>) }
        \cup { Json("str", <<>>, t) : t \in { <<>>, <<"x">>, FenceJson } }
        \cup { Json("number", <<>>, <<>>), Json("null", <<>>, <<>>) }

\* the text the model answers with. valid: the text is a JSON document once
\* the fence marks that stand outside its strings are taken out; fenced:
\* there are such marks (a ```json ... ``` fence around the document); doc:
\* that document
Content(fenced, valid, doc) == [fenced |-> fenced, valid |-> valid, doc |-> doc]

\* the documents that are tried with a fence around them
FencedDocuments == { d \in Documents : Len(d.items) <= 1 }

Contents ==
    { Content(FALSE, TRUE, d) : d \in Documents }
        \cup { Content(TRUE, TRUE, d) : d \in FencedDocuments }
        \cup { Content(f, FALSE, Json("null", <<>>, <<>>)) : f \in BOOLEAN }

StripPair(p) == Pair(Unmarked(p.key), [p.value EXCEPT !.text = Unmarked(@)])

\* the replacement on one value of a list: on the keys and values of an
\* object, on the text of a string
StripItem(o) ==
    IF o.type = "dict"
    THEN Object([j \in 1..Len(o.pairs) |-> StripPair(o.pairs[j])])
    ELSE [o EXCEPT !.text = Unmarked(@)]

\* .strip().replace("```json", "").replace("```", "") on the whole text of
\* the completion: the marks around the document go, and so do the marks
\* inside every string of the document, keys and values alike
StripFences(c) ==
    Content(FALSE, c.valid,
            Json(c.doc.type,
                 IF c.doc.type = "list"
                 THEN [i \in 1..Len(c.doc.items) |-> StripItem(c.doc.items[i])]
                 ELSE [i \in 1..Len(c.doc.items) |-> StripPair(c.doc.items[i])],
                 Unmarked(c.doc.text)))

\* json.loads raises on text that is no JSON document
JsonLoadsRaises(c) == c.fenced \/ ~c.valid

\* a value of the list as the loop meets it. A JSON object becomes a dict:
\* of the pairs with one key the last one stays
LoadObject(o) ==
    IF o.type # "dict" THEN Element(o.type, FALSE, NoTweet)
    ELSE LET at == { j \in 1..Len(o.pairs) : o.pairs[j].key = TweetKey }
         IN  IF at = {} THEN Element("dict", FALSE, NoTweet)
             ELSE Element("dict", TRUE,
                          o.pairs[CHOOSE j \in at : \A k \in at : k <= j].value)

\* json.loads of a document: iterating a list yields its values, a dict
\* its keys, a string its characters
Loads(d) ==
    CASE d.type = "list" ->
            Document("list", [i \in 1..Len(d.items) |-> LoadObject(d.items[i])])
      [] d.type = "dict" ->
            Document("dict",
                     [i \in 1..Cardinality({ d.items[j].key :
                                                j \in 1..Len(d.items) })
                         |-> StringElement])
      [] d.type = "str" ->
            Document("str", [i \in 1..Len(d.text) |-> StringElement])
      [] OTHER -> Document(d.type, <<>>)

JsonLoads(c) == Loads(c.doc)

NoDocument == Document("none", <<>>)

\* for tweet in response_json: raises TypeError on a number and on null
Iterable(doc) == doc.type \in {"list", "dict", "str"}

\* tweet['tweet'] raises KeyError on a dict without the key and TypeError
\* on a string, a number and null
Subscriptable(e) == e.type = "dict" /\ e.has_tweet

\* the first element at which the loop raises; 0 when it runs to its end
FirstBad(items) ==
    IF \E i \in 1..Len(items) : ~Subscriptable(items[i])
    THEN CHOOSE i \in 1..Len(items) :
            /\ ~Subscriptable(items[i])
            /\ \A j \in 1..(i - 1) : Subscriptable(items[j])
    ELSE 0

\* Message(conversation_id=..., sender=SenderType.ai, message_text=...,
\*         content_chunk_id=...): its id is None until it is flushed
NewMessage(cid, e, chunk) ==
    [id |-> None, conversation_id |-> cid, sender |-> "ai",
     message_text |-> e.tweet, content_chunk_id |-> chunk]

\* the rows db.session.add has staged when the loop ends or raises
Staged(doc, cid, chunk) ==
    LET n == IF FirstBad(doc.items) = 0 THEN Len(doc.items)
             ELSE FirstBad(doc.items) - 1
    IN  [i \in 1..n |-> NewMessage(cid, doc.items[i], chunk)]

\* the loop of lines 219-227 raises
LoopRaises(doc) == ~Iterable(doc) \/ FirstBad(doc.items) # 0

\* ------------------------------------------------------ collaborator answers
\* requests.get(PROFILES_API_URL/api/ais/content/<content_id>): the call
\* raises, or answers a status and a JSON body with or without the key
\* 'systems_instructions'. The body of an answer is a JSON object ("dict"),
\* the JSON list [] ("list") or text that is no JSON ("text")
ProfileAnswer(raises, status, has, si) ==
    [raises |-> raises, status_code |-> status, body |-> "dict",
     has_si |-> has, si |-> si]

NoProfileAnswer == ProfileAnswer(FALSE, 0, FALSE, <<>>)

ProfileAnswers ==
    { ProfileAnswer(TRUE, 0, FALSE, <<>>),
      ProfileAnswer(FALSE, 500, FALSE, <<>>),
      ProfileAnswer(FALSE, 200, FALSE, <<>>),
      [ProfileAnswer(FALSE, 200, FALSE, <<>>) EXCEPT !.body = "list"],
      [ProfileAnswer(FALSE, 200, FALSE, <<>>) EXCEPT !.body = "text"],
      ProfileAnswer(FALSE, 200, TRUE, <<"be brief">>) }

\* requests.get(QUERIES_API_URL/api/chunk/<id>)
ChunkAnswer(raises, status, has, text) ==
    [raises |-> raises, status_code |-> status, body |-> "dict",
     has_text |-> has, text |-> text]

NoChunkAnswer == ChunkAnswer(FALSE, 0, FALSE, <<>>)

ChunkAnswers ==
    { ChunkAnswer(TRUE, 0, FALSE, <<>>),
      ChunkAnswer(FALSE, 404, FALSE, <<>>),
      ChunkAnswer(FALSE, 200, FALSE, <<>>),
      [ChunkAnswer(FALSE, 200, FALSE, <<>>) EXCEPT !.body = "list"],
      [ChunkAnswer(FALSE, 200, FALSE, <<>>) EXCEPT !.body = "text"],
      ChunkAnswer(FALSE, 200, TRUE, <<"chunk", " ", "text">>) }

\* requests.post(GRAPHQL_API_URL): the body has the key 'errors' or not;
\* its 'data' is an object ("dict") or null; results is
\* data.searchSimilarChunks, empty when the key is not there
SearchAnswer(raises, status, errors, results) ==
    [raises |-> raises, status_code |-> status, body |-> "dict",
     errors |-> errors, data |-> "dict", results |-> results]

NoSearchAnswer == SearchAnswer(FALSE, 0, FALSE, <<>>)

SearchAnswers ==
    { SearchAnswer(TRUE, 0, FALSE, <<>>),
      SearchAnswer(FALSE, 500, FALSE, <<>>),
      SearchAnswer(FALSE, 200, TRUE, <<>>),
      SearchAnswer(FALSE, 200, FALSE, <<>>),
      [SearchAnswer(FALSE, 200, FALSE, <<>>) EXCEPT !.body = "list"],
      [SearchAnswer(FALSE, 200, FALSE, <<>>) EXCEPT !.body = "text"],
      [SearchAnswer(FALSE, 200, FALSE, <<>>) EXCEPT !.data = "null"],
      SearchAnswer(FALSE, 200, FALSE, <<[chunkId |-> 9, text |-> <<"found">>]>>) }

\* client.chat.completions.create(...): raises or answers a text
ModelAnswer(raises, content) == [raises |-> raises, content |-> content]

NoModelAnswer == ModelAnswer(FALSE, Content(FALSE, FALSE, Json("none", <<>>, <<>>)))

ModelAnswers ==
    { ModelAnswer(FALSE, c) : c \in Contents }
        \cup { ModelAnswer(TRUE, Content(FALSE, FALSE, Json("null", <<>>, <<>>))) }

\* the bodies clients post
RequestBodies ==
    { Body("none", FALSE, None, None),
      Body("dict", FALSE, None, None),
      Body("dict", FALSE, None, 5),
      JsonValue("str", FALSE, TRUE), JsonValue("str", FALSE, FALSE),
      JsonValue("str", TRUE, FALSE), JsonValue("list", FALSE, TRUE),
      JsonValue("number", FALSE, FALSE), JsonValue("number", TRUE, FALSE),
      JsonValue("bool", FALSE, FALSE), JsonValue("bool", TRUE, FALSE) }
        \cup { Body("dict", TRUE, 1, chunk) : chunk \in {None, 0, 5} }
        \cup { Body("dict", TRUE, cid, chunk) :
                    cid \in {2, 3}, chunk \in {None, 5} }

\* what the collaborators may answer in the specification Spec
FullEnv ==
    [bodies |-> RequestBodies, db_raises |-> BOOLEAN,
     profiles |-> ProfileAnswers, chunks |-> ChunkAnswers,
     searches |-> SearchAnswers, models |-> ModelAnswers]

\* ------------------------------------------------------------- responses
Response(status, key, text) == [status |-> status, key |-> key, text |-> text]

NoResponse == Response(0, "", "")
BadInput == Response(400, "error", "conversation_id is required")
NotFound == Response(404, "error", "Conversation not found")
ProfileFailed == Response(500, "error", "Failed to retrieve AI profile")
ChunkFailed == Response(500, "error", "Failed to retrieve chunk text")
NoBasisResponse ==
    Response(400, "error", "No user message found to base AI response on")
SearchFailed == Response(500, "error", "Failed to perform search")
NoSimilar ==
    Response(400, "error", "No similar content found for AI to respond with")
InvalidJson == Response(500, "error", "Invalid JSON response from GPT-4o")
InternalError == Response(500, "error", "Internal server error")
Acknowledgment ==
    Response(200, "message", "AI messages appended to conversation")
\* what Flask answers when the view function raises
Unhandled == Response(500, "html", "Internal Server Error")


\* ------------------------------------------------------------------- state
VARIABLES
    message,              \* the message table, in order of insertion
    next_id,              \* its autoincrement counter
    clock,                \* func.now() of the database, in seconds
    pc,                   \* where each run stands
    data,                 \* request.get_json()
    content_chunk_id,     \* the local of that name
    conversation,         \* Conversation.query.get(conversation_id)
    messages,             \* the conversation's messages as loaded
    ai_profile_resp,      \* what the profiles API answered
    systems_instructions,
    chunk_resp,           \* what the chunk API answered
    search_resp,          \* what the search answered
    variables,            \* the variables posted to the search
    chunk_text,
    prompt_messages,
    response,             \* what the model answered
    response_json,
    session,              \* the objects of db.session
    db_error,             \* the database call that raised: read, insert, commit
    first_id,             \* the table's next id when the run began
    steps,                \* the steps the run has taken, in order
    result                \* the response returned

db == <<message, next_id, clock>>
locals ==
    <<data, content_chunk_id, conversation, messages, ai_profile_resp,
      systems_instructions, chunk_resp, search_resp, variables, chunk_text,
      prompt_messages, response, response_json, session, db_error, first_id>>
vars == <<db, pc, locals, steps, result>>

Terminal == {"PERSISTED", "FAILED"}

NoBody == Body("none", FALSE, None, None)

\* the histories conversation 1 may start with: distinct timestamps 1..n
Histories ==
    { [i \in 1..Len(h) |->
          MessageRow(i, 1, h[i].sender, h[i].content_chunk_id,
                     h[i].message_text, i, "committed", "other")] :
      h \in SeqsUpTo(HistoryKinds, MaxHist) }

Init ==
    /\ message \in Histories
    /\ next_id = Len(message) + 1
    /\ clock = MaxHist
    /\ pc = [r \in Runs |-> "idle"]
    /\ data = [r \in Runs |-> NoBody]
    /\ content_chunk_id = [r \in Runs |-> None]
    /\ conversation = [r \in Runs |-> NoConversation]
    /\ messages = [r \in Runs |-> <<>>]
    /\ ai_profile_resp = [r \in Runs |-> NoProfileAnswer]
    /\ systems_instructions = [r \in Runs |-> <<>>]
    /\ chunk_resp = [r \in Runs |-> NoChunkAnswer]
    /\ search_resp = [r \in Runs |-> NoSearchAnswer]
    /\ variables = [r \in Runs |-> NoVariables]
    /\ chunk_text = [r \in Runs |-> <<>>]
    /\ prompt_messages = [r \in Runs |-> <<>>]
    /\ response = [r \in Runs |-> NoModelAnswer]
    /\ response_json = [r \in Runs |-> NoDocument]
    /\ session = [r \in Runs |-> <<>>]
    /\ db_error = [r \in Runs |-> "none"]
    /\ first_id = [r \in Runs |-> None]
    /\ steps = [r \in Runs |-> <<>>]
    /\ result = [r \in Runs |-> NoResponse]

\* ------------------------------------------------------------ the database
\* the rows a reader sees: those of committed transactions
Committed == SelectSeq(message, LAMBDA m : m.tx = "committed")

CommittedOf(cid) ==
    SelectSeq(message, LAMBDA m : m.tx = "committed" /\ m.conversation_id = cid)

Range(s) == { s[i] : i \in 1..Len(s) }

RECURSIVE PermSeqs(_)
PermSeqs(S) ==
    IF S = {} THEN { <<>> }
    ELSE UNION { { <<x>> \o p : p \in PermSeqs(S \ {x}) } : x \in S }

RECURSIVE OrdersFrom(_, _)
\* the sequences of the rows S with timestamp >= t that are ascending by
\* timestamp; rows of equal timestamp come in any order
OrdersFrom(S, t) ==
    IF \A m \in S : m.timestamp < t THEN { <<>> }
    ELSE { p \o q : p \in PermSeqs({ m \in S : m.timestamp = t }),
                     q \in OrdersFrom(S, t + 1) }

\* Message.query.filter_by(conversation_id=...).order_by(Message.timestamp).all()
MessagesOrderedByTimestamp(cid) == OrdersFrom(Range(CommittedOf(cid)), 0)

\* the rows worker r inserted in a transaction still open
OpenRows(r) == { m \in Range(message) : m.tx = "open" /\ m.by = r }

\* faulty variant: every INSERT is committed at once, a failure undoes nothing
RollbackKeepsRows(r) ==
    [i \in 1..Len(message) |->
        IF message[i].tx = "open" /\ message[i].by = r
        THEN [message[i] EXCEPT !.tx = "committed"]
        ELSE message[i]]

\* ROLLBACK: the rows of the worker's open transaction are gone
Rollback(r) == SelectSeq(message, LAMBDA m : ~(m.tx = "open" /\ m.by = r))

\* faulty variant: the COMMIT is not issued, the rows stay in the open
\* transaction
CommitNothing(r) == message

\* faulty variant: the batch replaces the replies committed before it
CommitReplaces(r) ==
    LET kept == SelectSeq(message,
                    LAMBDA m : ~(m.tx = "committed" /\ m.sender = "ai"))
    IN  [i \in 1..Len(kept) |->
            IF kept[i].tx = "open" /\ kept[i].by = r
            THEN [kept[i] EXCEPT !.tx = "committed"]
            ELSE kept[i]]

\* COMMIT: the rows of the worker's open transaction become visible
CommitRows(r) ==
    [i \in 1..Len(message) |->
        IF message[i].tx = "open" /\ message[i].by = r
        THEN [message[i] EXCEPT !.tx = "committed"]
        ELSE message[i]]

\* ----------------------------------------------------------------- actions
\* return jsonify(...), status: the run ends
Return(r, state, resp) ==
    /\ pc' = [pc EXCEPT ![r] = state]
    /\ result' = [result EXCEPT ![r] = resp]

\* the run goes on
Goto(r, state) ==
    /\ pc' = [pc EXCEPT ![r] = state]
    /\ UNCHANGED result

Step(r, name) == steps' = [steps EXCEPT ![r] = Append(@, name)]

\* lines 80-90: the body is read and checked. ids bounds the model: a
\* request is taken while the table's next id is at most that
Request(r, bodies, ids) ==
    /\ pc[r] = "idle"
    /\ next_id <= ids
    /\ first_id' = [first_id EXCEPT ![r] = next_id]
    /\ \E d \in bodies :
        /\ data' = [data EXCEPT ![r] = d]
        /\ IF Falsy(d)
           THEN /\ Return(r, "FAILED", BadInput)
                /\ UNCHANGED content_chunk_id
           ELSE IF InRaises(d)
           THEN \* line 83 raises, outside the try
                /\ Return(r, "FAILED", Unhandled)
                /\ UNCHANGED content_chunk_id
           ELSE IF ~HasKey(d)
           THEN /\ Return(r, "FAILED", BadInput)
                /\ UNCHANGED content_chunk_id
           ELSE IF d.kind # "dict"
           THEN \* data['conversation_id'] on a string or a list raises, outside
                \* the try
                /\ Return(r, "FAILED", Unhandled)
                /\ UNCHANGED content_chunk_id
           ELSE /\ Goto(r, "START")
                /\ content_chunk_id' =
                       [content_chunk_id EXCEPT ![r] = d.content_chunk_id]
    /\ UNCHANGED <<db, conversation, messages, ai_profile_resp,
                   systems_instructions, chunk_resp, search_resp, variables,
                   chunk_text, prompt_messages, response, response_json,
                   session, db_error, steps>>

\* lines 94-97: Conversation.query.get reads the conversation
LoadConversation(r, raising) ==
    /\ pc[r] = "START"
    /\ Step(r, "conversation")
    /\ \E raises \in raising :
        IF raises
        THEN /\ db_error' = [db_error EXCEPT ![r] = "read"]
             /\ Return(r, "FAILED", InternalError)
             /\ UNCHANGED conversation
        ELSE LET c == ConversationGet(data[r].conversation_id) IN
             /\ conversation' = [conversation EXCEPT ![r] = c]
             /\ UNCHANGED db_error
             /\ IF c = NoConversation
                THEN Return(r, "FAILED", NotFound)
                ELSE Goto(r, "CONVERSATION_FOUND")
    /\ UNCHANGED <<db, data, content_chunk_id, messages, ai_profile_resp,
                   systems_instructions, chunk_resp, search_resp, variables,
                   chunk_text, prompt_messages, response, response_json,
                   session, first_id>>

\* lines 100-101: a second query reads the messages of the conversation, as
\* they are committed at that moment
LoadMessages(r, raising) ==
    /\ pc[r] = "CONVERSATION_FOUND"
    /\ \E raises \in raising :
        IF raises
        THEN /\ db_error' = [db_error EXCEPT ![r] = "read"]
             /\ Return(r, "FAILED", InternalError)
             /\ UNCHANGED messages
        ELSE /\ UNCHANGED db_error
             /\ Goto(r, "CONVERSATION_LOADED")
             /\ \E ms \in MessagesOrderedByTimestamp(data[r].conversation_id) :
                    messages' = [messages EXCEPT ![r] = ms]
    /\ UNCHANGED <<db, data, content_chunk_id, conversation, ai_profile_resp,
                   systems_instructions, chunk_resp, search_resp, variables,
                   chunk_text, prompt_messages, response, response_json,
                   session, first_id, steps>>

\* faulty variant: the status of the persona answer is not looked at
FetchPersonaAnyStatus(r, answers) ==
    /\ pc[r] = "CONVERSATION_LOADED"
    /\ Step(r, "persona")
    /\ \E a \in answers :
        /\ ai_profile_resp' = [ai_profile_resp EXCEPT ![r] = a]
        /\ IF a.raises
           THEN /\ Return(r, "FAILED", InternalError)
                /\ UNCHANGED systems_instructions
           ELSE IF a.body # "dict"
           THEN \* ai_profile_resp.json() or ai_profile.get raises
                /\ Return(r, "FAILED", InternalError)
                /\ UNCHANGED systems_instructions
           ELSE /\ Goto(r, "PERSONA_LOADED")
                /\ systems_instructions' =
                       [systems_instructions EXCEPT ![r] =
                           IF a.has_si THEN a.si ELSE <<>>]
    /\ UNCHANGED <<db, data, content_chunk_id, conversation, messages,
                   chunk_resp, search_resp, variables, chunk_text,
                   prompt_messages, response, response_json, session,
                   db_error, first_id>>

\* lines 104-115: the persona is fetched
FetchPersona(r, answers) ==
    /\ pc[r] = "CONVERSATION_LOADED"
    /\ Step(r, "persona")
    /\ \E a \in answers :
        /\ ai_profile_resp' = [ai_profile_resp EXCEPT ![r] = a]
        /\ IF a.raises
           THEN /\ Return(r, "FAILED", InternalError)
                /\ UNCHANGED systems_instructions
           ELSE IF a.status_code # 200
           THEN /\ Return(r, "FAILED", ProfileFailed)
                /\ UNCHANGED systems_instructions
           ELSE IF a.body # "dict"
           THEN \* ai_profile_resp.json() or ai_profile.get raises
                /\ Return(r, "FAILED", InternalError)
                /\ UNCHANGED systems_instructions
           ELSE /\ Goto(r, "PERSONA_LOADED")
                /\ systems_instructions' =
                       [systems_instructions EXCEPT ![r] =
                           IF a.has_si THEN a.si ELSE <<>>]
    /\ UNCHANGED <<db, data, content_chunk_id, conversation, messages,
                   chunk_resp, search_resp, variables, chunk_text,
                   prompt_messages, response, response_json, session,
                   db_error, first_id>>

\* lines 118-126: the chunk named by the request is fetched
FetchChunk(r, answers) ==
    /\ pc[r] = "PERSONA_LOADED"
    /\ Truthy(content_chunk_id[r])
    /\ Step(r, "chunk")
    /\ \E a \in answers :
        /\ chunk_resp' = [chunk_resp EXCEPT ![r] = a]
        /\ IF a.raises
           THEN /\ Return(r, "FAILED", InternalError)
                /\ UNCHANGED chunk_text
           ELSE IF a.status_code # 200
           THEN /\ Return(r, "FAILED", ChunkFailed)
                /\ UNCHANGED chunk_text
           ELSE IF a.body # "dict" \/ ~a.has_text
           THEN \* chunk_resp.json() raises, or chunk_data['text'] does
                /\ Return(r, "FAILED", InternalError)
                /\ UNCHANGED chunk_text
           ELSE /\ Goto(r, "GROUNDED")
                /\ chunk_text' = [chunk_text EXCEPT ![r] = a.text]
    /\ UNCHANGED <<db, data, content_chunk_id, conversation, messages,
                   ai_profile_resp, systems_instructions, search_resp,
                   variables, prompt_messages, response, response_json,
                   session, db_error, first_id>>

\* lines 127-132: no chunk is named and the conversation has no message
NoBasis(r) ==
    /\ pc[r] = "PERSONA_LOADED"
    /\ ~Truthy(content_chunk_id[r])
    /\ Len(LastMessages(messages[r])) = 0
    /\ Return(r, "FAILED", NoBasisResponse)
    /\ UNCHANGED <<db, locals, steps>>

\* faulty variant: the check for an empty result is missing, and taking the first
\* match raises
SearchWithoutEmptyCheck(r, answers) ==
    /\ pc[r] = "PERSONA_LOADED"
    /\ ~Truthy(content_chunk_id[r])
    /\ Len(LastMessages(messages[r])) # 0
    /\ Step(r, "search")
    /\ variables' = [variables EXCEPT ![r] =
                         SearchVariables(conversation[r], messages[r])]
    /\ \E a \in answers :
        /\ search_resp' = [search_resp EXCEPT ![r] = a]
        /\ IF a.raises
           THEN /\ Return(r, "FAILED", InternalError)
                /\ UNCHANGED <<content_chunk_id, chunk_text>>
           ELSE IF a.status_code # 200
           THEN /\ Return(r, "FAILED", SearchFailed)
                /\ UNCHANGED <<content_chunk_id, chunk_text>>
           ELSE IF a.body # "dict"
           THEN \* search_resp.json() raises, or search_result.get does
                /\ Return(r, "FAILED", InternalError)
                /\ UNCHANGED <<content_chunk_id, chunk_text>>
           ELSE IF a.errors
           THEN /\ Return(r, "FAILED", SearchFailed)
                /\ UNCHANGED <<content_chunk_id, chunk_text>>
           ELSE IF a.data = "null"
           THEN \* None.get raises
                /\ Return(r, "FAILED", InternalError)
                /\ UNCHANGED <<content_chunk_id, chunk_text>>
           ELSE IF Len(a.results) = 0
           THEN \* results[0] raises IndexError
                /\ Return(r, "FAILED", InternalError)
                /\ UNCHANGED <<content_chunk_id, chunk_text>>
           ELSE /\ Goto(r, "GROUNDED")
                /\ content_chunk_id' =
                       [content_chunk_id EXCEPT ![r] = a.results[1].chunkId]
                /\ chunk_text' = [chunk_text EXCEPT ![r] = a.results[1].text]
    /\ UNCHANGED <<db, data, conversation, messages, ai_profile_resp,
                   systems_instructions, chunk_resp, prompt_messages,
                   response, response_json, session, db_error, first_id>>

\* lines 134-178: the chunk is found by similarity search
Search(r, answers) ==
    /\ pc[r] = "PERSONA_LOADED"
    /\ ~Truthy(content_chunk_id[r])
    /\ Len(LastMessages(messages[r])) # 0
    /\ Step(r, "search")
    /\ variables' = [variables EXCEPT ![r] =
                         SearchVariables(conversation[r], messages[r])]
    /\ \E a \in answers :
        /\ search_resp' = [search_resp EXCEPT ![r] = a]
        /\ IF a.raises
           THEN /\ Return(r, "FAILED", InternalError)
                /\ UNCHANGED <<content_chunk_id, chunk_text>>
           ELSE IF a.status_code # 200
           THEN /\ Return(r, "FAILED", SearchFailed)
                /\ UNCHANGED <<content_chunk_id, chunk_text>>
           ELSE IF a.body # "dict"
           THEN \* search_resp.json() raises, or search_result.get does
                /\ Return(r, "FAILED", InternalError)
                /\ UNCHANGED <<content_chunk_id, chunk_text>>
           ELSE IF a.errors
           THEN /\ Return(r, "FAILED", SearchFailed)
                /\ UNCHANGED <<content_chunk_id, chunk_text>>
           ELSE IF a.data = "null"
           THEN \* None.get raises
                /\ Return(r, "FAILED", InternalError)
                /\ UNCHANGED <<content_chunk_id, chunk_text>>
           ELSE IF Len(a.results) = 0
           THEN /\ Return(r, "FAILED", NoSimilar)
                /\ UNCHANGED <<content_chunk_id, chunk_text>>
           ELSE /\ Goto(r, "GROUNDED")
                /\ content_chunk_id' =
                       [content_chunk_id EXCEPT ![r] = a.results[1].chunkId]
                /\ chunk_text' = [chunk_text EXCEPT ![r] = a.results[1].text]
    /\ UNCHANGED <<db, data, conversation, messages, ai_profile_resp,
                   systems_instructions, chunk_resp, prompt_messages,
                   response, response_json, session, db_error, first_id>>

\* lines 181-206: the prompt is built
BuildPrompt(r) ==
    /\ pc[r] = "GROUNDED"
    /\ Step(r, "prompt")
    /\ prompt_messages' =
           [prompt_messages EXCEPT ![r] =
               PromptMessages(systems_instructions[r], messages[r],
                              chunk_text[r])]
    /\ Goto(r, "PROMPT_BUILT")
    /\ UNCHANGED <<db, data, content_chunk_id, conversation, messages,
                   ai_profile_resp, systems_instructions, chunk_resp,
                   search_resp, variables, chunk_text, response,
                   response_json, session, db_error, first_id>>

\* lines 210-216: the model is called and its text parsed
Generate(r, answers) ==
    /\ pc[r] = "PROMPT_BUILT"
    /\ Step(r, "model")
    /\ \E a \in answers :
        /\ response' = [response EXCEPT ![r] = a]
        /\ IF a.raises
           THEN /\ Return(r, "FAILED", InternalError)
                /\ UNCHANGED response_json
           ELSE IF JsonLoadsRaises(StripFences(a.content))
           THEN /\ Return(r, "FAILED", InternalError)
                /\ UNCHANGED response_json
           ELSE /\ Goto(r, "GENERATED")
                /\ response_json' =
                       [response_json EXCEPT ![r] =
                           JsonLoads(StripFences(a.content))]
    /\ UNCHANGED <<db, data, content_chunk_id, conversation, messages,
                   ai_profile_resp, systems_instructions, chunk_resp,
                   search_resp, variables, chunk_text, prompt_messages,
                   session, db_error, first_id>>

\* lines 218-227: one Message per element is staged; db.session.commit()
\* is entered when the loop has run to its end
Stage(r) ==
    /\ pc[r] = "GENERATED"
    /\ session' = [session EXCEPT ![r] =
                       @ \o Staged(response_json[r], data[r].conversation_id,
                                   content_chunk_id[r])]
    /\ IF LoopRaises(response_json[r])
       THEN /\ Return(r, "FAILED", InvalidJson)
            /\ UNCHANGED steps
       ELSE /\ Goto(r, "COMMITTING")
            /\ Step(r, "commit")
    /\ UNCHANGED <<db, data, content_chunk_id, conversation, messages,
                   ai_profile_resp, systems_instructions, chunk_resp,
                   search_resp, variables, chunk_text, prompt_messages,
                   response, response_json, db_error, first_id>>

\* the staged objects not yet inserted
Pending(r) == SelectSeq(session[r], LAMBDA o : o.id = None)

\* the object of the session that the next INSERT writes
NextPending(r) ==
    CHOOSE i \in 1..Len(session[r]) :
        /\ session[r][i].id = None
        /\ \A j \in 1..(i - 1) : session[r][j].id # None

\* line 228, the flush: one INSERT per staged object, in the order staged;
\* the row takes the next id and the database's now(). A null text violates
\* nullable=False; any INSERT may fail. The failure rolls the transaction
\* back, empties the session and is caught at line 230.
InsertRow(r, raising) ==
    /\ pc[r] = "COMMITTING"
    /\ Pending(r) # <<>>
    /\ LET i == NextPending(r)
           o == session[r][i]
       IN \E raises \in raising :
           IF o.message_text.null \/ raises
           THEN /\ message' = Rollback(r)
                /\ session' = [session EXCEPT ![r] = <<>>]
                /\ db_error' = [db_error EXCEPT ![r] = "insert"]
                /\ Return(r, "FAILED", InvalidJson)
                /\ UNCHANGED next_id
           ELSE /\ message' = Append(message,
                       MessageRow(next_id, o.conversation_id, o.sender,
                                  o.content_chunk_id, o.message_text.text,
                                  clock, "open", r))
                /\ next_id' = next_id + 1
                /\ session' = [session EXCEPT ![r][i].id = next_id]
                /\ Goto(r, "COMMITTING")
                /\ UNCHANGED db_error
    /\ UNCHANGED <<clock, data, content_chunk_id, conversation, messages,
                   ai_profile_resp, systems_instructions, chunk_resp,
                   search_resp, variables, chunk_text, prompt_messages,
                   response, response_json, first_id, steps>>

\* line 228, the COMMIT, and lines 229-235
CommitTx(r, raising) ==
    /\ pc[r] = "COMMITTING"
    /\ Pending(r) = <<>>
    /\ \E raises \in raising :
        IF raises
        THEN /\ message' = Rollback(r)
             /\ session' = [session EXCEPT ![r] = <<>>]
             /\ db_error' = [db_error EXCEPT ![r] = "commit"]
             /\ Return(r, "FAILED", InvalidJson)
        ELSE /\ message' = CommitRows(r)
             /\ UNCHANGED <<session, db_error>>
             /\ Return(r, "PERSISTED", Acknowledgment)
    /\ UNCHANGED <<next_id, clock, data, content_chunk_id, conversation,
                   messages, ai_profile_resp, systems_instructions,
                   chunk_resp, search_resp, variables, chunk_text,
                   prompt_messages, response, response_json, first_id, steps>>

\* faulty variant: the session outlives the request that filled it
TeardownKeepsSession(r) ==
    /\ pc[r] \in Terminal
    /\ pc' = [pc EXCEPT ![r] = "idle"]
    /\ data' = [data EXCEPT ![r] = NoBody]
    /\ content_chunk_id' = [content_chunk_id EXCEPT ![r] = None]
    /\ conversation' = [conversation EXCEPT ![r] = NoConversation]
    /\ messages' = [messages EXCEPT ![r] = <<>>]
    /\ ai_profile_resp' = [ai_profile_resp EXCEPT ![r] = NoProfileAnswer]
    /\ systems_instructions' = [systems_instructions EXCEPT ![r] = <<>>]
    /\ chunk_resp' = [chunk_resp EXCEPT ![r] = NoChunkAnswer]
    /\ search_resp' = [search_resp EXCEPT ![r] = NoSearchAnswer]
    /\ variables' = [variables EXCEPT ![r] = NoVariables]
    /\ chunk_text' = [chunk_text EXCEPT ![r] = <<>>]
    /\ prompt_messages' = [prompt_messages EXCEPT ![r] = <<>>]
    /\ response' = [response EXCEPT ![r] = NoModelAnswer]
    /\ response_json' = [response_json EXCEPT ![r] = NoDocument]
    /\ UNCHANGED session
    /\ db_error' = [db_error EXCEPT ![r] = "none"]
    /\ first_id' = [first_id EXCEPT ![r] = None]
    /\ steps' = [steps EXCEPT ![r] = <<>>]
    /\ result' = [result EXCEPT ![r] = NoResponse]
    /\ UNCHANGED db

\* the response is sent and the request context torn down: the session of
\* db = SQLAlchemy(app) is removed with it, and the worker is free again
Teardown(r) ==
    /\ pc[r] \in Terminal
    /\ pc' = [pc EXCEPT ![r] = "idle"]
    /\ data' = [data EXCEPT ![r] = NoBody]
    /\ content_chunk_id' = [content_chunk_id EXCEPT ![r] = None]
    /\ conversation' = [conversation EXCEPT ![r] = NoConversation]
    /\ messages' = [messages EXCEPT ![r] = <<>>]
    /\ ai_profile_resp' = [ai_profile_resp EXCEPT ![r] = NoProfileAnswer]
    /\ systems_instructions' = [systems_instructions EXCEPT ![r] = <<>>]
    /\ chunk_resp' = [chunk_resp EXCEPT ![r] = NoChunkAnswer]
    /\ search_resp' = [search_resp EXCEPT ![r] = NoSearchAnswer]
    /\ variables' = [variables EXCEPT ![r] = NoVariables]
    /\ chunk_text' = [chunk_text EXCEPT ![r] = <<>>]
    /\ prompt_messages' = [prompt_messages EXCEPT ![r] = <<>>]
    /\ response' = [response EXCEPT ![r] = NoModelAnswer]
    /\ response_json' = [response_json EXCEPT ![r] = NoDocument]
    /\ session' = [session EXCEPT ![r] = <<>>]
    /\ db_error' = [db_error EXCEPT ![r] = "none"]
    /\ first_id' = [first_id EXCEPT ![r] = None]
    /\ steps' = [steps EXCEPT ![r] = <<>>]
    /\ result' = [result EXCEPT ![r] = NoResponse]
    /\ UNCHANGED db

\* a second passes on the database's clock; it shows only in the rows a
\* flush inserts
Tick ==
    /\ \E r \in Runs : pc[r] = "COMMITTING"
    /\ clock < MaxHist + MaxClock
    /\ clock' = clock + 1
    /\ UNCHANGED <<message, next_id, pc, locals, steps, result>>

\* ----------------------------------------------------------- specifications
\* Spec: one worker serves the requests one after the other, the
\* collaborators answer anything they can, and requests are taken until a
\* run has inserted a row
Workers == {"r1"}

\* the next id of a table in which no run has inserted yet
FreshIds == IF message \in Histories THEN Len(message) + 1 ELSE 0

\* one step of worker r
Work(r) ==
    \/ Request(r, FullEnv.bodies, FreshIds)
    \/ LoadConversation(r, FullEnv.db_raises)
    \/ LoadMessages(r, FullEnv.db_raises)
    \/ FetchPersona(r, FullEnv.profiles)
    \/ FetchChunk(r, FullEnv.chunks)
    \/ NoBasis(r)
    \/ Search(r, FullEnv.searches)
    \/ BuildPrompt(r)
    \/ Generate(r, FullEnv.models)
    \/ Stage(r)
    \/ InsertRow(r, FullEnv.db_raises)
    \/ CommitTx(r, FullEnv.db_raises)
    \/ Teardown(r)

Next ==
    \/ \E r \in Workers : Work(r)
    \/ Tick

Spec == Init /\ [][Next]_vars

\* SpecRuns: both workers serve requests at once, run after run; the
\* collaborators answer one failure and one success each, and the table
\* starts with at most one message
ThinEnv ==
    [bodies |-> { Body("none", FALSE, None, None),
                  Body("dict", TRUE, 1, None),
                  Body("dict", TRUE, 1, 5),
                  Body("dict", TRUE, 3, None) },
     db_raises |-> BOOLEAN,
     profiles |-> { ProfileAnswer(FALSE, 500, FALSE, <<>>),
                    ProfileAnswer(FALSE, 200, TRUE, <<"be brief">>) },
     chunks |-> { ChunkAnswer(FALSE, 404, FALSE, <<>>),
                  ChunkAnswer(FALSE, 200, TRUE, <<"chunk", " ", "text">>) },
     searches |-> { SearchAnswer(FALSE, 200, FALSE, <<>>),
                    SearchAnswer(FALSE, 200, FALSE,
                                 <<[chunkId |-> 9, text |-> <<"found">>]>>) },
     models |-> { ModelAnswer(TRUE, Content(FALSE, FALSE, Json("null", <<>>, <<>>))),
                  ModelAnswer(FALSE, Content(FALSE, FALSE, Json("null", <<>>, <<>>))),
                  ModelAnswer(FALSE, Content(FALSE, TRUE,
                      Json("list",
                           <<Object(<<Pair(TweetKey, TweetValue(FALSE, T1))>>),
                             Object(<<Pair(TweetKey, TweetValue(FALSE, T2))>>)>>,
                           <<>>))),
                  ModelAnswer(FALSE, Content(FALSE, TRUE,
                      Json("list",
                           <<Object(<<Pair(TweetKey, TweetValue(FALSE, T1))>>),
                             KeylessObject>>,
                           <<>>))) }]

InitRuns == Init /\ Len(message) <= 1

\* one step of worker r in SpecRuns; requests are taken while the table
\* has handed out at most one id
WorkRuns(r) ==
    \/ Request(r, ThinEnv.bodies, 2)
    \/ LoadConversation(r, ThinEnv.db_raises)
    \/ LoadMessages(r, ThinEnv.db_raises)
    \/ FetchPersona(r, ThinEnv.profiles)
    \/ FetchChunk(r, ThinEnv.chunks)
    \/ NoBasis(r)
    \/ Search(r, ThinEnv.searches)
    \/ BuildPrompt(r)
    \/ Generate(r, ThinEnv.models)
    \/ Stage(r)
    \/ InsertRow(r, ThinEnv.db_raises)
    \/ CommitTx(r, ThinEnv.db_raises)
    \/ Teardown(r)

NextRuns ==
    \/ \E r \in Runs : WorkRuns(r)
    \/ Tick

SpecRuns == InitRuns /\ [][NextRuns]_vars

\* SpecSeq: one worker serves request after request on a table that starts
\* with at most one message, so that a run finds the rows of the runs
\* before it; requests are taken while the table has handed out at most
\* three ids
WorkSeq(r) ==
    \/ Request(r, ThinEnv.bodies, 4)
    \/ LoadConversation(r, ThinEnv.db_raises)
    \/ LoadMessages(r, ThinEnv.db_raises)
    \/ FetchPersona(r, ThinEnv.profiles)
    \/ FetchChunk(r, ThinEnv.chunks)
    \/ NoBasis(r)
    \/ Search(r, ThinEnv.searches)
    \/ BuildPrompt(r)
    \/ Generate(r, ThinEnv.models)
    \/ Stage(r)
    \/ InsertRow(r, ThinEnv.db_raises)
    \/ CommitTx(r, ThinEnv.db_raises)
    \/ Teardown(r)

NextSeq ==
    \/ \E r \in Workers : WorkSeq(r)
    \/ Tick

SpecSeq == InitRuns /\ [][NextSeq]_vars

\* ------------------------------------------------------------- properties
Ended(r) == pc[r] \in Terminal

Running(r) == pc[r] \notin Terminal \cup {"idle"}

Did(r, step) == step \in Range(steps[r])

\* the rows of the table that the current run of worker r inserted
RowsOf(r) ==
    SelectSeq(message, LAMBDA m : m.by = r /\ m.id >= first_id[r])

\* those of them a reader sees
PersistedBy(r) == SelectSeq(RowsOf(r), LAMBDA m : m.tx = "committed")

\* the model answered a text
ModelAnswered(r) == Did(r, "model") /\ ~response[r].raises

\* the document of the text as the model wrote it, no mark taken out of
\* its strings
AsWritten(c) == Loads(c.doc)

\* the text is, inside its fence if it has one, a JSON list of objects
\* that each have the key 'tweet'
ListOfTweets(c) ==
    /\ c.valid
    /\ AsWritten(c).type = "list"
    /\ \A i \in 1..Len(AsWritten(c).items) :
           AsWritten(c).items[i].type = "dict" /\ AsWritten(c).items[i].has_tweet

\* C1: whenever the model's text is not valid JSON, or valid JSON that is no
\* list of objects each with a 'tweet' field, the run that ends persists no
\* Message and answers the Invalid Model Output error, not the internal one.
C1_InvalidOutputReported ==
    \A r \in Runs :
        (Ended(r) /\ ModelAnswered(r) /\ ~ListOfTweets(response[r].content))
            => /\ PersistedBy(r) = <<>>
               /\ result[r] = InvalidJson

\* the Messages the run constructed from the model's array
Constructed(r) ==
    Staged(response_json[r], data[r].conversation_id, content_chunk_id[r])

\* C2: the persistence step is all-or-nothing. While a run is under way no
\* row of it is visible; once it has ended none of its rows is left in an
\* open transaction, and either none of the Messages it constructed is
\* committed or all of them are, one row each in the order constructed.
C2_AllOrNothing ==
    \A r \in Runs :
        /\ Running(r) => PersistedBy(r) = <<>>
        /\ Ended(r) =>
               /\ OpenRows(r) = {}
               /\ \/ PersistedBy(r) = <<>>
                  \/ /\ Len(PersistedBy(r)) = Len(Constructed(r))
                     /\ \A i \in 1..Len(Constructed(r)) :
                            PersistedBy(r)[i].message_text =
                                Constructed(r)[i].message_text.text

\* a run failed in its commit after rows of it had been inserted
C2_Witness ==
    \E r \in Runs :
        /\ pc[r] = "FAILED"
        /\ db_error[r] \in {"insert", "commit"}
        /\ next_id > first_id[r]
        /\ Len(Constructed(r)) >= 2

IsPrefix(s, t) == Len(s) <= Len(t) /\ SubSeq(t, 1, Len(s)) = s

\* the steps with the two ways of grounding named alike
Phases(s) ==
    [i \in 1..Len(s) |->
        IF s[i] \in {"chunk", "search"} THEN "grounding" ELSE s[i]]

SpecOrder ==
    <<"conversation", "grounding", "persona", "prompt", "model", "commit">>

\* C3: the steps of a run are, in this order and each at most
\* once, conversation load, grounding, persona fetch, prompt build, model
\* call, persistence; the persona is fetched only after grounding.
C3_GroundingBeforePersona ==
    \A r \in Runs : IsPrefix(Phases(steps[r]), SpecOrder)

\* a run went through every step and persisted
C3_Witness ==
    \E r \in Runs :
        /\ pc[r] = "PERSISTED"
        /\ steps[r] =
              <<"conversation", "persona", "search", "prompt", "model", "commit">>

\* a collaborator call that raised or answered a non-success status
UpstreamFailed(r) ==
    \/ ai_profile_resp[r].raises
    \/ Did(r, "persona") /\ ai_profile_resp[r].status_code # 200
    \/ chunk_resp[r].raises
    \/ Did(r, "chunk") /\ chunk_resp[r].status_code # 200
    \/ search_resp[r].raises
    \/ Did(r, "search") /\ search_resp[r].status_code # 200
    \/ Did(r, "search") /\ search_resp[r].body = "dict" /\ search_resp[r].errors

\* a collaborator answered 200 with a body the handler cannot read
UnreadableAnswer(r) ==
    \/ Did(r, "persona") /\ ai_profile_resp[r].body # "dict"
    \/ Did(r, "chunk") /\ (chunk_resp[r].body # "dict" \/ ~chunk_resp[r].has_text)
    \/ Did(r, "search") /\ (search_resp[r].body # "dict" \/ search_resp[r].data = "null")

\* the error category of a failed run, by the condition that ended it
Category(r) ==
    CASE result[r] = Unhandled -> "none"
      [] ~HasKey(data[r]) -> "Bad Input"
      [] db_error[r] = "read" -> "Unclassified/Internal"
      [] conversation[r] = NoConversation -> "Not Found"
      [] UpstreamFailed(r) -> "Upstream Unavailable"
      [] UnreadableAnswer(r) -> "Unclassified/Internal"
      [] ~Did(r, "chunk") /\ ~Did(r, "search") -> "No Groundable Content"
      [] Did(r, "search") /\ search_resp[r].results = <<>> -> "No Groundable Content"
      [] response[r].raises -> "Generation Failure"
      [] ~(response[r].content.valid /\ AsWritten(response[r].content).type = "list"
             /\ \A i \in 1..Len(AsWritten(response[r].content).items) :
                    LET e == AsWritten(response[r].content).items[i]
                    IN  e.type = "dict" /\ e.has_tweet /\ ~e.tweet.null)
            -> "Invalid Model Output"
      [] OTHER -> "Unclassified/Internal"

Categories ==
    { "Bad Input", "Not Found", "Upstream Unavailable", "No Groundable Content",
      "Generation Failure", "Invalid Model Output", "Unclassified/Internal" }

\* C4: every failed run falls in one of the seven error categories, and
\* two runs that fail in different categories never return the same
\* outward response (status and message).
C4_DistinctStatuses ==
    \A r \in Runs :
        pc[r] = "FAILED" =>
            /\ Category(r) \in Categories
            /\ \A q \in Runs :
                   (pc[q] = "FAILED" /\ Category(q) # Category(r))
                       => result[q] # result[r]

\* the request names a conversation, and none has that id
WellFormed(d) == d.kind = "dict" /\ d.has_conversation_id
Unknown(id) == \A c \in ConversationRows : c.id # id

\* C5: a well-formed request whose conversation_id resolves to no
\* conversation ends as Not Found; the run takes no step but the
\* conversation lookup (no persona, chunk, search or model call) and
\* writes no row.
C5_UnknownConversation ==
    \A r \in Runs :
        (WellFormed(data[r]) /\ Unknown(data[r].conversation_id)) =>
            /\ IsPrefix(steps[r], <<"conversation">>)
            /\ RowsOf(r) = <<>>
            /\ (Ended(r) /\ db_error[r] # "read") => result[r] = NotFound

C5_Witness ==
    \E r \in Runs :
        /\ Ended(r)
        /\ WellFormed(data[r]) /\ Unknown(data[r].conversation_id)
        /\ db_error[r] # "read"
        /\ steps[r] = <<"conversation">>

\* the run read an existing conversation that has no message, and the
\* request names no chunk
NothingToGroundOn(r) ==
    /\ Did(r, "conversation")
    /\ conversation[r] # NoConversation
    /\ pc[r] # "CONVERSATION_FOUND"
    /\ db_error[r] # "read"
    /\ data[r].content_chunk_id = None
    /\ messages[r] = <<>>

\* C6: such a run ends with the 'no basis for response' error
\* and issues no search, whatever the other collaborators answer.
C6_NoBasisWhatever ==
    \A r \in Runs :
        NothingToGroundOn(r) =>
            /\ ~Did(r, "search")
            /\ Ended(r) => result[r] = NoBasisResponse

PersonaFetched(r) ==
    /\ Did(r, "persona")
    /\ ~ai_profile_resp[r].raises
    /\ ai_profile_resp[r].status_code = 200
    /\ ai_profile_resp[r].body = "dict"

\* a run with nothing to ground on was ended by the persona fetch, which
\* comes before the history is looked at
C6_Witness ==
    \E r \in Runs :
        /\ NothingToGroundOn(r)
        /\ Ended(r)
        /\ ~PersonaFetched(r)
        /\ result[r] = ProfileFailed

\* the search answered with success and no match
SearchFoundNothing(r) ==
    /\ Did(r, "search")
    /\ ~search_resp[r].raises
    /\ search_resp[r].status_code = 200
    /\ search_resp[r].body = "dict"
    /\ ~search_resp[r].errors
    /\ search_resp[r].data = "dict"
    /\ search_resp[r].results = <<>>

\* C7: when the search answers successfully with zero matches, the run
\* ends with the 'no similar content' error, the model is not called in
\* that run and no row is written.
C7_NoMatchEndsRun ==
    \A r \in Runs :
        SearchFoundNothing(r) =>
            /\ pc[r] = "FAILED"
            /\ result[r] = NoSimilar
            /\ ~Did(r, "model")
            /\ RowsOf(r) = <<>>

C7_Witness == \E r \in Runs : SearchFoundNothing(r) /\ Ended(r)

\* the conversation the request names
Named(r) == CHOOSE c \in ConversationRows : c.id = data[r].conversation_id

\* the committed rows of the named conversation that were there when the
\* run began
Earlier(r) ==
    { m \in Range(CommittedOf(data[r].conversation_id)) : m.id < first_id[r] }

\* q is the text of the latest message of S, then a space and the text of
\* the latest of the others if there are others
TwoLatestJoined(S, q) ==
    \E m1 \in S :
        /\ \A m \in S : m.timestamp <= m1.timestamp
        /\ IF S = {m1} THEN q = m1.message_text
           ELSE \E m2 \in S \ {m1} :
                   /\ \A m \in S \ {m1} : m.timestamp <= m2.timestamp
                   /\ q = m1.message_text \o <<" ">> \o m2.message_text

\* C8: when a request names no chunk and its conversation has at least one
\* message, the query text sent to the search is the texts of the two most
\* recent messages by timestamp (of the one message if there is only one),
\* most recent first, joined by a single space; the limit is 1 and the
\* search is scoped to the user who owns the conversation.
C8_SearchQuery ==
    \A r \in Runs :
        Did(r, "search") =>
            /\ Range(messages[r]) = Earlier(r)
            /\ Earlier(r) # {}
            /\ TwoLatestJoined(Earlier(r), variables[r].queryText)
            /\ variables[r].limit = 1
            /\ variables[r].userId = ToString(Named(r).user_id)

\* a search over a conversation of three messages whose two latest differ
C8_Witness ==
    \E r \in Runs :
        /\ Did(r, "search")
        /\ Len(messages[r]) = 3
        /\ messages[r][2].message_text # messages[r][3].message_text
        /\ messages[r][1].message_text # messages[r][2].message_text

\* the chunk id the run grounded its reply in: the one the request names,
\* else the one of the first match of the search
Grounding(r) ==
    IF data[r].content_chunk_id # None /\ data[r].content_chunk_id # 0
    THEN data[r].content_chunk_id
    ELSE search_resp[r].results[1].chunkId

\* the committed rows with the ids handed out since the run began
NewRows(r) ==
    SelectSeq(message, LAMBDA m : m.tx = "committed" /\ m.id >= first_id[r])

\* the rows are the tweets of the array, in its order, as ai Messages of
\* the conversation the request names, tagged with the grounding
RowsMatch(rows, items, r) ==
    /\ Len(rows) = Len(items)
    /\ \A i \in 1..Len(items) :
        /\ rows[i].sender = "ai"
        /\ rows[i].conversation_id = data[r].conversation_id
        /\ rows[i].message_text = items[i].tweet.text
        /\ rows[i].content_chunk_id = Grounding(r)
        /\ \A j \in 1..(i - 1) : rows[j].id < rows[i].id

\* C9 with a null 'tweet' counted as a 'tweet' field: a run whose model output is a JSON array of k objects
\* each with a 'tweet' field persists exactly k new ai Messages for the
\* conversation of the request, in array order, with the tweets as texts
\* and the resolved grounding id, and returns the acknowledgment.
C9_PersistsEveryArray ==
    \A r \in Runs :
        (Ended(r) /\ ModelAnswered(r) /\ ListOfTweets(response[r].content)) =>
            /\ pc[r] = "PERSISTED"
            /\ result[r] = Acknowledgment
            /\ RowsMatch(NewRows(r), AsWritten(response[r].content).items, r)

\* every 'tweet' of the array is a string
StringTweets(c) ==
    ListOfTweets(c)
        /\ \A i \in 1..Len(AsWritten(c).items) : ~AsWritten(c).items[i].tweet.null

\* C9 where every 'tweet' is a string and the database accepts the inserts
\* and the commit: a run whose model output is a JSON array of k such
\* objects persists exactly k new ai Messages for the conversation of the
\* request, in array order, with texts equal to the 'tweet' values of the
\* model's output and the resolved grounding id, and returns the
\* acknowledgment.
C9_PersistsStringTweets ==
    \A r \in Runs :
        (Ended(r) /\ ModelAnswered(r) /\ StringTweets(response[r].content)
            /\ db_error[r] = "none") =>
            /\ pc[r] = "PERSISTED"
            /\ result[r] = Acknowledgment
            /\ RowsMatch(NewRows(r), AsWritten(response[r].content).items, r)

\* a run persisted an array of two different tweets
C9_Witness ==
    \E r \in Runs :
        /\ pc[r] = "PERSISTED"
        /\ Len(NewRows(r)) >= 2
        /\ NewRows(r)[1].message_text # NewRows(r)[2].message_text

\* the persona instructions P and the grounding text T the collaborators
\* answered with
PersonaInstructions(r) ==
    IF ai_profile_resp[r].has_si THEN ai_profile_resp[r].si ELSE <<>>
GroundingText(r) ==
    IF Did(r, "chunk") THEN chunk_resp[r].text
    ELSE search_resp[r].results[1].text

\* C10: the instruction sequence handed to the model has N+2 entries for a
\* history of N messages: a system entry equal to the persona instructions,
\* the N history entries in chronological order with roles user -> 'user',
\* ai -> 'assistant' and texts unchanged, then a user entry that contains
\* the formatting instruction and the grounding text verbatim.
C10_PromptShape ==
    \A r \in Runs :
        Did(r, "prompt") =>
            LET pm == prompt_messages[r]
                n == Len(messages[r])
            IN  /\ Len(pm) = n + 2
                /\ pm[1] = [role |-> "system", content |-> PersonaInstructions(r)]
                /\ \A i \in 1..n :
                    /\ messages[r][i].sender = "user" => pm[i + 1].role = "user"
                    /\ messages[r][i].sender = "ai" => pm[i + 1].role = "assistant"
                    /\ pm[i + 1].content = messages[r][i].message_text
                    /\ \A j \in 1..(i - 1) :
                           messages[r][j].timestamp <= messages[r][i].timestamp
                /\ pm[n + 2].role = "user"
                /\ Contains(pm[n + 2].content,
                       <<"\nReply in json format as a list of tweets, in the form [{'tweet': 'tweet text'}, {'tweet': 'tweet text'}, ...]">>)
                /\ Contains(pm[n + 2].content, GroundingText(r))
                /\ GroundingText(r) # <<>>

\* a prompt over a history that has messages of both senders
C10_Witness ==
    \E r \in Runs :
        /\ Did(r, "prompt")
        /\ Len(messages[r]) = 3
        /\ \E i, j \in 1..3 :
               messages[r][i].sender = "user" /\ messages[r][j].sender = "ai"
        /\ PersonaInstructions(r) # <<>>

\* C11: no step of any run changes or removes a Message that is committed:
\* the committed rows of the table, in the order of their insertion, stay
\* a prefix of the committed rows after the step, so that a run only
\* appends and a second run adds a second batch behind the first.
C11_AppendOnly == [][IsPrefix(Committed, Committed')]_vars

\* a second run on the conversation has committed its batch behind the
\* batch an earlier run committed
C11_Witness ==
    \E r \in Runs :
        /\ pc[r] = "PERSISTED"
        /\ Len(NewRows(r)) = 2
        /\ \E i \in 1..Len(message) :
               /\ message[i].by = r
               /\ message[i].tx = "committed"
               /\ message[i].id < first_id[r]
               /\ message[i].conversation_id = data[r].conversation_id

\* the rows of the run of worker r stand side by side in the sequence o
Contiguous(o, r) ==
    \A i, j \in 1..Len(o) :
        (i < j /\ o[i] \in Range(PersistedBy(r)) /\ o[j] \in Range(PersistedBy(r)))
            => \A k \in i..j : o[k] \in Range(PersistedBy(r))

\* C12: when two runs on the same conversation have both persisted, the
\* conversation can be read in timestamp order with the rows of each run
\* as one unbroken batch: no row of one run stands between two rows of the
\* other.
C12_UninterleavedBatches ==
    \A r, q \in Runs :
        (r # q /\ pc[r] = "PERSISTED" /\ pc[q] = "PERSISTED"
            /\ data[r].conversation_id = data[q].conversation_id) =>
            \E o \in MessagesOrderedByTimestamp(data[r].conversation_id) :
                Contiguous(o, r) /\ Contiguous(o, q)

\* the chunk id the request supplies, else the one of the top search match
SuppliedOrMatched(r) ==
    IF data[r].content_chunk_id # None
    THEN data[r].content_chunk_id
    ELSE IF search_resp[r].results # <<>>
    THEN search_resp[r].results[1].chunkId
    ELSE None

\* C13: every Message a run creates has the sender ai and carries a
\* content-chunk id that is not null and equals the grounding of that run:
\* the content_chunk_id of the request when it supplies one, otherwise the
\* chunk id of the top search match.
C13_CarriesGrounding ==
    \A r \in Runs :
        pc[r] # "idle" => \A i \in 1..Len(RowsOf(r)) :
            /\ RowsOf(r)[i].sender = "ai"
            /\ RowsOf(r)[i].content_chunk_id # None
            /\ RowsOf(r)[i].content_chunk_id = SuppliedOrMatched(r)

\* the collaborator answered, and with a status other than 200
NonSuccess(resp) == ~resp.raises /\ resp.status_code # 200

\* the run ended in a retrieval failure right after the step named last,
\* without a model call and without a row
RetrievalFailure(r, last, resp) ==
    /\ pc[r] = "FAILED"
    /\ result[r] = resp
    /\ resp.status = 500
    /\ steps[r][Len(steps[r])] = last
    /\ ~Did(r, "model")
    /\ RowsOf(r) = <<>>
    /\ session[r] = <<>>

\* C14: when the persona fetch, the chunk fetch or the search answers with
\* a non-success status, the run ends with the retrieval-failure error of
\* that collaborator; no collaborator and no model is called after it and
\* the message table is as it was.
C14_NonSuccessEndsRun ==
    \A r \in Runs :
        /\ (Did(r, "persona") /\ NonSuccess(ai_profile_resp[r])) =>
               RetrievalFailure(r, "persona", ProfileFailed)
        /\ (Did(r, "chunk") /\ NonSuccess(chunk_resp[r])) =>
               RetrievalFailure(r, "chunk", ChunkFailed)
        /\ (Did(r, "search") /\ NonSuccess(search_resp[r])) =>
               RetrievalFailure(r, "search", SearchFailed)

\* the chunk collaborator has answered a non-success status and the run has
\* ended
C14_Witness ==
    \E r \in Runs :
        /\ Did(r, "chunk") /\ NonSuccess(chunk_resp[r])
        /\ Ended(r)
        /\ Earlier(r) # {}

\* the request has no body, or a body without the key conversation_id
LacksConversationId(d) == d.kind = "none" \/ ~d.has_conversation_id

\* C15: a request that lacks conversation_id ends as Bad Input at once: the
\* run takes no step (no conversation lookup, no collaborator call), stages
\* and writes no row.
C15_BadInputAtOnce ==
    \A r \in Runs :
        (pc[r] # "idle" /\ LacksConversationId(data[r])) =>
            /\ pc[r] = "FAILED"
            /\ result[r] = BadInput
            /\ result[r].status = 400
            /\ steps[r] = <<>>
            /\ conversation[r] = NoConversation
            /\ session[r] = <<>>
            /\ RowsOf(r) = <<>>

\* a body that is a number other than zero, or true, was posted
C15_Witness ==
    \E r \in Runs :
        /\ pc[r] = "FAILED"
        /\ data[r].kind \in {"number", "bool"}
        /\ ~data[r].empty

\* C16: when the call of the generative model itself fails, the run ends
\* in failure with a result of its own, not the one of an unclassified
\* internal error, and no row is staged or persisted.
C16_GenerationFailureReported ==
    \A r \in Runs :
        (Did(r, "model") /\ response[r].raises) =>
            /\ pc[r] = "FAILED"
            /\ session[r] = <<>>
            /\ RowsOf(r) = <<>>
            /\ result[r] # InternalError

\* the request supplies a content_chunk_id
Supplied(r) == WellFormed(data[r]) /\ data[r].content_chunk_id # None

\* the chunk fetch did not succeed
ChunkFetchFailed(r) ==
    Did(r, "chunk") /\ (chunk_resp[r].raises \/ chunk_resp[r].status_code # 200)

\* C17: when the request supplies a content_chunk_id, whatever its value,
\* the grounding is resolved by the fetch of that chunk alone: no search is
\* issued, the grounding id of the run stays the supplied id, once the run
\* is grounded the chunk has been fetched, and a fetch that fails ends the
\* run with the retrieval error.
C17_SuppliedChunkFetched ==
    \A r \in Runs :
        Supplied(r) =>
            /\ ~Did(r, "search")
            /\ content_chunk_id[r] = data[r].content_chunk_id
            /\ Did(r, "prompt") => Did(r, "chunk")
            /\ ChunkFetchFailed(r) => (pc[r] = "FAILED" /\ result[r] = ChunkFailed)

\* the responses the handler returns itself: the acknowledgment and the
\* errors of its categories
Handled ==
    { Acknowledgment, BadInput, NotFound, ProfileFailed, ChunkFailed,
      SearchFailed, NoBasisResponse, NoSimilar, InvalidJson, InternalError }

\* the step is taken at most once in the sequence
AtMostOnce(s, step) == Cardinality({ i \in 1..Len(s) : s[i] = step }) <= 1

\* C18, its safety part: a run that has ended is in one terminal state with
\* one result that the handler returned itself, so that no exception left
\* the handler; a run that has not ended has no result yet; and in one run
\* the persona, chunk, search and model collaborators are each called at
\* most once.
C18_OneResultNoEscape ==
    \A r \in Runs :
        /\ Ended(r) => result[r] \in Handled
        /\ (pc[r] = "PERSISTED") <=> (result[r] = Acknowledgment)
        /\ ~Ended(r) => result[r] = NoResponse
        /\ \A step \in {"persona", "chunk", "search", "model"} :
               AtMostOnce(steps[r], step)

\* C19: a run returns the success acknowledgment if and only if its batch
\* was committed. A run that acknowledges has gone through the commit
\* without a database error and every Message it constructed is a committed
\* row, none left in an open transaction; a run that ends with any other
\* result has no committed row.
C19_AckIffCommitted ==
    \A r \in Runs :
        Ended(r) =>
            /\ result[r] = Acknowledgment =>
                   /\ Did(r, "commit")
                   /\ db_error[r] = "none"
                   /\ OpenRows(r) = {}
                   /\ Len(PersistedBy(r)) = Len(Constructed(r))
            /\ result[r] # Acknowledgment => PersistedBy(r) = <<>>
            /\ (Did(r, "commit") /\ db_error[r] = "none") =>
                   result[r] = Acknowledgment

\* a run acknowledged a batch of two committed rows
C19_Witness ==
    \E r \in Runs :
        /\ result[r] = Acknowledgment
        /\ Len(PersistedBy(r)) = 2
        /\ Len(Constructed(r)) = 2

\* the object staged in the session is the Message constructed from the
\* element of the run's own array
OwnObject(o, c) ==
    /\ o.conversation_id = c.conversation_id
    /\ o.sender = c.sender
    /\ o.message_text = c.message_text
    /\ o.content_chunk_id = c.content_chunk_id

\* C20: the rows a run staged before it failed part-way through the
\* model's array are discarded with that run. A run has an empty session
\* until it stages its own Messages; the session it flushes and commits
\* holds the Messages it constructed from its own array and no other; and
\* the rows it inserts are no more than those.
C20_StagedRowsDiscarded ==
    \A r \in Runs :
        /\ pc[r] \notin {"COMMITTING", "PERSISTED", "FAILED"} => session[r] = <<>>
        /\ pc[r] \in {"COMMITTING", "PERSISTED"} =>
               /\ Len(session[r]) = Len(Constructed(r))
               /\ \A i \in 1..Len(session[r]) :
                      OwnObject(session[r][i], Constructed(r)[i])
        /\ pc[r] # "idle" => Len(RowsOf(r)) <= Len(Constructed(r))
        /\ pc[r] = "FAILED" => PersistedBy(r) = <<>>

\* a run failed on the second element of the array with the Message of the
\* first element staged
C20_Witness ==
    \E r \in Runs :
        /\ pc[r] = "FAILED"
        /\ result[r] = InvalidJson
        /\ LoopRaises(response_json[r])
        /\ Len(session[r]) = 1
        /\ data[r].conversation_id = 2

====
